---- MODULE Spec2Model ----
(***************************************************************************)
(* Model of pyaffineprep/reporting/preproc_reporter.py: report export,     *)
(* thumbnail generation with joblib caching, narrative generation, the     *)
(* per-subject report, nipype execution logs and empty-directory cleanup.  *)
(*                                                                         *)
(* Text is modelled as sequences: a file name is a sequence of text        *)
(* fragments (single letters where the code looks inside the name), a path *)
(* is a sequence of names, and generated HTML is a sequence of fragments.  *)
(* Every operation has its own specification (SpecExport, SpecDel, ...)    *)
(* over the shared variables.                                              *)
(***************************************************************************)
EXTENDS Integers, Sequences, FiniteSets, TLC

VARIABLES
    tree,           \* the directory tree below the directory under work
    exportCall,     \* the last export_report call: tag, outcome, tree before
    delCall,        \* the last del_empty_dirs call: outcome, tree before
    docCall,        \* the last generate_preproc_undergone_docstring call
    cache,          \* the keys joblib.Memory holds in output_dir/QA
    executed,       \* the wrapped computations actually run, in order
    results_gallery,        \* the thumbnails committed to the results gallery
    outputs,        \* the files written into output_dir
    calls,          \* the thumbnail-generator and get_nipype_report calls made
    parent_results_gallery, \* the thumbnails committed to the parent gallery
    progress_logger,        \* what the progress logger received, in order
    reportCall,     \* the last generate_subject_preproc_report call
    nipCall         \* the last make_nipype_execution_log_html call

treeVars == <<tree, exportCall, delCall>>

docVars == <<docCall>>

thumbVars == <<cache, executed, results_gallery, outputs, calls>>

reportVars == <<parent_results_gallery, progress_logger, reportCall, nipCall>>

vars == <<treeVars, docVars, thumbVars, reportVars>>

None == "None"

\* the variables an operation does not use
DocIdle == docCall = None

ThumbsIdle ==
    /\ cache = {}
    /\ executed = <<>>
    /\ results_gallery = <<>>
    /\ outputs = {}
    /\ calls = <<>>

ReportIdle ==
    /\ parent_results_gallery = <<>>
    /\ progress_logger = <<>>
    /\ reportCall = None
    /\ nipCall = None

(***************************************************************************)
(* Directory trees.  A tree is [files, dirs]: the sets of paths of its     *)
(* regular files and of its directories; the root is the empty path.       *)
(***************************************************************************)
Prefix(p, n) == SubSeq(p, 1, n)

IsPrefix(d, p) == Len(d) <= Len(p) /\ Prefix(p, Len(d)) = d

Parent(p) == Prefix(p, Len(p) - 1)

\* os.path.join(folder, f)
join(folder, f) == Append(folder, f)

\* os.path.isfile / os.path.isdir / os.path.exists
isfile(t, p) == p \in t.files

isdir(t, p) == p \in t.dirs

exists(t, p) == isfile(t, p) \/ isdir(t, p)

\* os.listdir(d): the names of the entries of directory d
listdir(t, d) ==
    { p[Len(p)] : p \in { q \in t.files \cup t.dirs : Len(q) = Len(d) + 1 /\ IsPrefix(d, q) } }

\* the tree holding these files and these directories, and their parents
MkTree(fs, ds) ==
    [files |-> fs,
     dirs  |-> UNION { { Prefix(p, n) : n \in 0..(Len(p) - 1) } : p \in fs }
               \cup UNION { { Prefix(p, n) : n \in 0..Len(p) } : p \in ds }
               \cup { <<>> }]

(***************************************************************************)
(* export_report                                                           *)
(***************************************************************************)
\* the alternatives of WEBBY_EXTENSION_PATTERN
WebbyExtensions ==
    { <<"p", "n", "g">>, <<"j", "p", "e", "g">>, <<"h", "t", "m", "l">>,
      <<"p", "h", "p">>, <<"c", "s", "s">>, <<"t", "x", "t">>,
      <<"r", "s", "t">>, <<"j", "s">>, <<"g", "i", "f">> }

\* re.match(WEBBY_EXTENSION_PATTERN, f): ".*" matches no line break, "\." a
\* dot, then one alternative, then "$": the end of f or a last line break.
check_extension(f) ==
    \E i \in 0..Len(f) :
        /\ \A k \in 1..i : f[k] # "\n"
        /\ i + 1 <= Len(f)
        /\ f[i + 1] = "."
        /\ \E e \in WebbyExtensions :
              LET j == i + 1 + Len(e) IN
              /\ j <= Len(f)
              /\ SubSeq(f, i + 2, j) = e
              /\ \/ j = Len(f)
                 \/ j = Len(f) - 1 /\ f[Len(f)] = "\n"

\* the names copytree leaves out: regular files that fail the pattern
ignore_these(t, folder, files) ==
    { f \in files : isfile(t, join(folder, f)) /\ ~check_extension(f) }

RECURSIVE copytree(_, _, _)
RECURSIVE CopyNames(_, _, _, _)

\* the loop of shutil.copytree over the names it kept
CopyNames(t, names, src, dst) ==
    IF names = {} THEN t
    ELSE LET name == CHOOSE n \in names : TRUE
             srcname == join(src, name)
             dstname == join(dst, name)
             t1 == IF isdir(t, srcname)
                   THEN copytree(t, srcname, dstname).tree
                   ELSE [t EXCEPT !.files = @ \cup {dstname}]
         IN CopyNames(t1, names \ {name}, src, dst)

\* shutil.copytree that accepts a dst that exists
copytree_Mutant(t, src, dst) ==
    LET names == listdir(t, src)
        ignored == ignore_these(t, src, names)
    IN [tree |-> CopyNames([t EXCEPT !.dirs = @ \cup {dst}],
                           names \ ignored, src, dst),
        err |-> None]

\* shutil.copytree(src, dst, ignore=ignore_these): list src, make dst (an
\* error when dst exists), then copy every name that is not ignored
copytree(t, src, dst) ==
    LET names == listdir(t, src)
        ignored == ignore_these(t, src, names)
    IN IF exists(t, dst)
       THEN [tree |-> t, err |-> "FileExistsError"]
       ELSE [tree |-> CopyNames([t EXCEPT !.dirs = @ \cup {dst}],
                                names \ ignored, src, dst),
             err |-> None]

\* "frozen_report_%s" % tag
FrozenName(tag) ==
    <<"f", "r", "o", "z", "e", "n", "_", "r", "e", "p", "o", "r", "t", "_">> \o tag

\* file and directory names of the report directories explored
n_a_png == <<"a", ".", "p", "n", "g">>
n_b_nii == <<"b", ".", "n", "i", "i">>
n_c_html == <<"c", ".", "h", "t", "m", "l">>
n_d_js == <<".", "j", "s">>
n_png == <<"p", "n", "g">>
n_a_png_nl == <<"a", ".", "p", "n", "g", "\n">>
n_a_nl_b_png == <<"a", "\n", "b", ".", "p", "n", "g">>
n_sub == <<"s", "u", "b">>
n_raw_nii == <<"r", "a", "w", ".", "n", "i", "i">>

ExportFiles ==
    { <<n_a_png>>, <<n_b_nii>>, <<n_c_html>>, <<n_png>>, <<n_a_png_nl>>,
      <<n_a_nl_b_png>>, <<n_sub, n_a_png>>, <<n_sub, n_b_nii>>,
      <<n_sub, n_d_js>> }

ExportDirs == { <<n_raw_nii>> }

ExportTags == { <<>>, <<"1">> }

NoTree == MkTree({}, {})

TreeIdle ==
    /\ tree = NoTree
    /\ exportCall = None
    /\ delCall = None

InitExport ==
    /\ tree \in { MkTree(fs, ds) : fs \in SUBSET ExportFiles, ds \in SUBSET ExportDirs }
    /\ exportCall = [tag |-> <<>>, make_archive |-> FALSE, status |-> "none",
                     before |-> NoTree]
    /\ delCall = None
    /\ DocIdle /\ ThumbsIdle /\ ReportIdle

\* export_report(src, tag, make_archive) with src the root of tree.  The
\* archive command is a shell line handed to subprocess.check_output without
\* a shell, so no program of that name is found and it raises OSError.
export_report(tag, make_archive) ==
    LET src == <<>>
        dst == join(src, FrozenName(tag))
        r == copytree(tree, src, dst)
    IN /\ tree' = r.tree
       /\ exportCall' = [tag |-> tag, make_archive |-> make_archive,
                         status |-> IF r.err # None THEN r.err
                                    ELSE IF make_archive THEN "OSError"
                                    ELSE "ok",
                         before |-> tree]
       /\ UNCHANGED <<delCall, docVars, thumbVars, reportVars>>

NextExport ==
    \E tag \in ExportTags, make_archive \in BOOLEAN : export_report(tag, make_archive)

SpecExport == InitExport /\ [][NextExport]_vars

\* the name of a regular file ends with one of the allow-listed extensions
EndsWithWebbyExtension(f) ==
    \E e \in WebbyExtensions :
        /\ Len(f) >= Len(e) + 1
        /\ SubSeq(f, Len(f) - Len(e), Len(f)) = <<".">> \o e

ExportDst == <<FrozenName(exportCall.tag)>>

\* C1: after export_report(src, tag, make_archive=False) a regular file of
\* src is present in src/frozen_report_<tag> at the same relative path if and
\* only if its name ends with an allow-listed extension.
C1_CopiedIffWebbyExtension ==
    exportCall.status = "ok" =>
        \A p \in exportCall.before.files :
            (ExportDst \o p \in tree.files) <=> EndsWithWebbyExtension(p[Len(p)])

\* the frozen directories that earlier exports, under another tag, left in src
EarlierFrozen ==
    { <<FrozenName(tag)>> : tag \in ExportTags \ {exportCall.tag} }
    \cap exportCall.before.dirs

\* C16: when src/frozen_report_<tag> exists already, export_report(src, tag)
\* fails before copying anything and leaves src, the frozen directory
\* included, as it was; an export under a new tag copies into its frozen
\* directory the directories left by earlier exports too, with those of
\* their files that pass the extension filter.
C16_NotRerunnable ==
    /\ (exportCall.status # "none" /\ exists(exportCall.before, ExportDst)) =>
           /\ exportCall.status = "FileExistsError"
           /\ tree = exportCall.before
    /\ (exportCall.status # "none" /\ ~exists(exportCall.before, ExportDst)) =>
           /\ exportCall.status # "FileExistsError"
           /\ \A d \in EarlierFrozen :
                 /\ \A q \in exportCall.before.dirs :
                       IsPrefix(d, q) => ExportDst \o q \in tree.dirs
                 /\ \A p \in exportCall.before.files :
                       IsPrefix(d, p) =>
                           ((ExportDst \o p \in tree.files)
                               <=> check_extension(p[Len(p)]))

\* the export under tag 1 is tried twice after an export without tag: the
\* second try has failed, and the first had copied the earlier frozen
\* directory with its a.png
C16_Witness ==
    /\ exportCall.status = "FileExistsError"
    /\ exportCall.tag = <<"1">>
    /\ tree = exportCall.before
    /\ <<FrozenName(<<"1">>), FrozenName(<<>>), n_a_png>> \in tree.files
    /\ <<FrozenName(<<"1">>), n_a_png>> \in tree.files

(***************************************************************************)
(* del_empty_dirs                                                          *)
(***************************************************************************)
\* shutil.rmtree(d): d and everything below it is gone
rmtree(t, d) ==
    [files |-> { p \in t.files : ~IsPrefix(d, p) },
     dirs  |-> { p \in t.dirs : ~IsPrefix(d, p) }]

\* the orders in which os.listdir may return the entries S
ListingOrders(S) ==
    { f \in [1..Cardinality(S) -> S] : \A i, j \in 1..Cardinality(S) : f[i] = f[j] => i = j }

RECURSIVE del_empty_dirs(_, _)
RECURSIVE DelLoop(_, _, _, _, _)

\* the for loop of del_empty_dirs from entry i of the listing lst on, with
\* b_empty as it stands; the rmtree of s_dir is inside the loop body
DelLoop(t, s_dir, lst, i, b_empty) ==
    IF i > Len(lst) THEN { [tree |-> t, ret |-> b_empty] }
    ELSE LET s_path == join(s_dir, lst[i])
             sub == IF isdir(t, s_path)
                    THEN { [tree |-> r.tree, b |-> IF ~r.ret THEN FALSE ELSE b_empty]
                           : r \in del_empty_dirs(t, s_path) }
                    ELSE { [tree |-> t, b |-> FALSE] }
         IN UNION { DelLoop(IF r.b THEN rmtree(r.tree, s_dir) ELSE r.tree,
                            s_dir, lst, i + 1, r.b) : r \in sub }

\* del_empty_dirs(s_dir): every outcome [tree, ret] over the listing orders
del_empty_dirs(t, s_dir) ==
    UNION { DelLoop(t, s_dir, lst, 1, TRUE) : lst \in ListingOrders(listdir(t, s_dir)) }

n_a == <<"a">>
n_b == <<"b">>
n_c == <<"c">>

DelFiles == { <<n_a>>, <<n_b, n_a>>, <<n_c, n_a>>, <<n_b, n_b, n_a>>, <<n_b, n_c, n_a>> }

DelDirs == { <<n_b>>, <<n_c>>, <<n_b, n_b>>, <<n_b, n_c>>, <<n_c, n_b>> }

InitDel ==
    /\ tree \in { MkTree(fs, ds) : fs \in SUBSET DelFiles, ds \in SUBSET DelDirs }
    /\ exportCall = None
    /\ DocIdle /\ ThumbsIdle /\ ReportIdle
    /\ delCall = [s_dir |-> <<>>, status |-> "none", ret |-> FALSE, before |-> NoTree]

\* a call del_empty_dirs(s_dir); os.listdir raises when s_dir is no directory
del_empty_dirs_call(s_dir) ==
    IF ~isdir(tree, s_dir)
    THEN /\ delCall' = [s_dir |-> s_dir, status |-> "OSError", ret |-> FALSE,
                        before |-> tree]
         /\ UNCHANGED <<tree, exportCall, docVars, thumbVars, reportVars>>
    ELSE \E r \in del_empty_dirs(tree, s_dir) :
            /\ tree' = r.tree
            /\ delCall' = [s_dir |-> s_dir, status |-> "ok", ret |-> r.ret,
                           before |-> tree]
            /\ UNCHANGED <<exportCall, docVars, thumbVars, reportVars>>

NextDel == \E s_dir \in { <<>>, <<n_b>> } : del_empty_dirs_call(s_dir)

SpecDel == InitDel /\ [][NextDel]_vars

\* the regular files at or below directory d
FilesBelow(t, d) == { p \in t.files : IsPrefix(d, p) }

\* C9: del_empty_dirs(s_dir) never deletes a regular file: every regular file
\* below s_dir before the call is still there after it.
C9_NoRegularFileDeleted ==
    delCall.status = "ok" =>
        FilesBelow(delCall.before, delCall.s_dir) \subseteq tree.files

\* C10: after del_empty_dirs(s_dir) no directory strictly below s_dir is left
\* without a regular file in its subtree, and the flag returned is True
\* exactly when the tree at s_dir held no regular file.
C10_EmptySubdirsDeletedAndFlag ==
    delCall.status = "ok" =>
        /\ \A d \in tree.dirs :
              IsPrefix(delCall.s_dir, d) /\ d # delCall.s_dir => FilesBelow(tree, d) # {}
        /\ delCall.ret = (FilesBelow(delCall.before, delCall.s_dir) = {})

(***************************************************************************)
(* generate_preproc_undergone_docstring                                    *)
(***************************************************************************)
\* a smoothing width as passed: <<>> for None, <<w>> for a number, or a triple
Sum3(f) == f[1] + f[2] + f[3]

\* io_utils.sanitize_fwhm: None is no smoothing, a number is isotropic
sanitize_fwhm(fwhm) ==
    IF Len(fwhm) = 0 THEN <<0, 0, 0>>
    ELSE IF Len(fwhm) = 1 THEN <<fwhm[1], fwhm[1], fwhm[1]>>
    ELSE fwhm

\* the sentence used when tools_used is None
DefaultToolsSentence ==
    "All preprocessing was done using <a href=PYAFFINEPREP_URL>pyaffineprep</a>, a collection of python scripts and modules for preprocessing functional and anatomical MRI data."

\* "... smoothed with a %smm x %smm x %smm Gaussian kernel." % tuple(fwhm)
KernelText(f) ==
    <<"smoothed with a ", ToString(f[1]), "mm x ", ToString(f[2]), "mm x ",
      ToString(f[3]), "mm Gaussian kernel.">>

When(c, frags) == IF c THEN frags ELSE <<>>

\* the smoothing test written with >= for >
FuncSmoothingItem_Mutant(fwhm, has_func) == Sum3(fwhm) >= 0 /\ has_func

\* the functional smoothing item is written when np.sum(fwhm) > 0 and has_func
FuncSmoothingItem(fwhm, has_func) == Sum3(fwhm) > 0 /\ has_func

\* the text returned, as the sequence of the fragments appended to it
generate_preproc_undergone_docstring(a) ==
    LET fwhm == sanitize_fwhm(a.fwhm)
        anat_fwhm == sanitize_fwhm(a.anat_fwhm)
        tools_used == IF a.tools_used = None THEN DefaultToolsSentence
                      ELSE a.tools_used
    IN <<"<p>", tools_used, "</p>">>
       \o When(a.command_line # None,
               <<"Command-line: <i>", a.command_line, "</i><br/>">>)
       \o <<"<br>For each subject, the following preprocessing steps have been done:">>
       \o <<"<ul>">>
       \o When(a.prepreproc_undergone # "",
               <<"<li>", a.prepreproc_undergone, "</li>">>)
       \o When(a.dcm2nii, <<"<li>", "dcm2nii has been used", "</li>">>)
       \o When(a.deleteorient, <<"<li>", "Orientation-specific meta-data stripped-off", "</li>">>)
       \o When(a.bet, <<"<li>", "Brain extraction has been applied", "</li>">>)
       \o When(a.slice_timing, <<"<li>", "Slice-Timing Correction (STC) has been done", "</li>">>)
       \o When(a.realign, <<"<li>", "Motion correction has been done", "</li>">>)
       \o When(a.coregister,
               <<"<li>",
                 IF a.coreg_func_to_anat
                 THEN "functional images have been coregistered to their anatomical image."
                 ELSE "anatomical image has been coregistered against their functional images.",
                 " Coregistration is important", "</li>">>)
       \o When(a.additional_preproc_undergone # "",
               <<a.additional_preproc_undergone>>)
       \o When(FuncSmoothingItem(fwhm, a.has_func),
               <<"<li>", "The functional images have been ">> \o KernelText(fwhm)
               \o <<"</li>">>)
       \o When(Sum3(anat_fwhm) > 0,
               <<"<li>", "The anatomical image has been ">> \o KernelText(anat_fwhm))
       \o When(a.details_filename # None,
               <<" <a href=", a.details_filename,
                 ">See complete configuration used for preprocessing here</a>">>)
       \o <<"</ul>">>

MaxFwhm == 1

FwhmInputs ==
    { <<>> } \cup { <<w>> : w \in 0..MaxFwhm }
    \cup { <<MaxFwhm, 0, 0>>, <<0, 0, 0>> }

DocArgs ==
    [prepreproc_undergone : {"", "PREPREPROC"},
     tools_used : {None, "TOOLS"},
     dcm2nii : BOOLEAN, deleteorient : BOOLEAN, bet : BOOLEAN,
     slice_timing : BOOLEAN, realign : BOOLEAN, coregister : BOOLEAN,
     coreg_func_to_anat : BOOLEAN,
     fwhm : FwhmInputs, anat_fwhm : FwhmInputs,
     additional_preproc_undergone : {"", "ADDITIONAL"},
     command_line : {None, "python run.py"},
     details_filename : {None, "conf.ini"},
     has_func : BOOLEAN]

\* the defaults of the signature
DefaultDocArgs ==
    [prepreproc_undergone |-> "", tools_used |-> None, dcm2nii |-> FALSE,
     deleteorient |-> FALSE, bet |-> FALSE, slice_timing |-> FALSE,
     realign |-> FALSE, coregister |-> FALSE, coreg_func_to_anat |-> FALSE,
     fwhm |-> <<>>, anat_fwhm |-> <<>>, additional_preproc_undergone |-> "",
     command_line |-> None, details_filename |-> None, has_func |-> TRUE]

InitDoc ==
    /\ TreeIdle /\ ThumbsIdle /\ ReportIdle
    /\ docCall \in [called : {FALSE}, args : DocArgs, result : {<<>>}]

\* the call with the arguments drawn
docstring_call ==
    /\ ~docCall.called
    /\ docCall' = [docCall EXCEPT !.called = TRUE,
                                  !.result = generate_preproc_undergone_docstring(docCall.args)]
    /\ UNCHANGED <<treeVars, thumbVars, reportVars>>

NextDoc == docstring_call

SpecDoc == InitDoc /\ [][NextDoc]_vars

Contains(s, x) == \E i \in 1..Len(s) : s[i] = x

\* a call with no step enabled
NoStepArgs(a) ==
    /\ a.prepreproc_undergone = "" /\ a.additional_preproc_undergone = ""
    /\ a.tools_used = None
    /\ ~a.dcm2nii /\ ~a.deleteorient /\ ~a.bet /\ ~a.slice_timing
    /\ ~a.realign /\ ~a.coregister
    /\ a.fwhm = <<>> /\ a.anat_fwhm = <<>>

\* C4: called with no step enabled, generate_preproc_undergone_docstring
\* returns a narrative that contains the default tool-attribution sentence
\* and no <li> item at all.
C4_NoStepNoItem ==
    (docCall.called /\ NoStepArgs(docCall.args)) =>
        /\ Contains(docCall.result, DefaultToolsSentence)
        /\ ~Contains(docCall.result, "<li>")

C4_Witness ==
    /\ docCall.called
    /\ NoStepArgs(docCall.args)
    /\ docCall.result[Len(docCall.result)] = "</ul>"

\* the number of occurrences of fragment x in s
Count(s, x) == Cardinality({ i \in 1..Len(s) : s[i] = x })

RECURSIVE ItemHeads(_)

\* the first fragment of every <li> item of s, in order
ItemHeads(s) ==
    IF Len(s) < 2 THEN <<>>
    ELSE IF Head(s) = "<li>" THEN <<s[2]>> \o ItemHeads(Tail(s))
    ELSE ItemHeads(Tail(s))

\* one item per enabled step, in the fixed order of the steps
ExpectedItemHeads(a) ==
    When(a.prepreproc_undergone # "", <<a.prepreproc_undergone>>)
    \o When(a.dcm2nii, <<"dcm2nii has been used">>)
    \o When(a.deleteorient, <<"Orientation-specific meta-data stripped-off">>)
    \o When(a.bet, <<"Brain extraction has been applied">>)
    \o When(a.slice_timing, <<"Slice-Timing Correction (STC) has been done">>)
    \o When(a.realign, <<"Motion correction has been done">>)
    \o When(a.coregister,
            <<IF a.coreg_func_to_anat
              THEN "functional images have been coregistered to their anatomical image."
              ELSE "anatomical image has been coregistered against their functional images.">>)
    \o When(Sum3(sanitize_fwhm(a.fwhm)) > 0 /\ a.has_func,
            <<"The functional images have been ">>)
    \o When(Sum3(sanitize_fwhm(a.anat_fwhm)) > 0,
            <<"The anatomical image has been ">>)

\* every <li> is followed by its </li> before the next <li> and before </ul>
EveryItemClosed(s) ==
    \A i \in 1..Len(s) :
        s[i] = "<li>" =>
            \E j \in (i + 1)..Len(s) :
                /\ s[j] = "</li>"
                /\ \A k \in (i + 1)..(j - 1) : s[k] # "<li>" /\ s[k] # "</ul>"

\* C15: with additional_preproc_undergone empty, the narrative holds exactly
\* one <ul> ... </ul> pair, one <li> per enabled step in the fixed order
\* prepreproc, dcm2nii, deleteorient, bet, slice_timing, realign, coregister,
\* functional smoothing, anatomical smoothing, and every <li> is closed by
\* its </li> before the next item or the closing </ul>.
C15_WellFormedList ==
    (docCall.called /\ docCall.args.additional_preproc_undergone = "") =>
        /\ Count(docCall.result, "<ul>") = 1
        /\ Count(docCall.result, "</ul>") = 1
        /\ docCall.result[Len(docCall.result)] = "</ul>"
        /\ ItemHeads(docCall.result) = ExpectedItemHeads(docCall.args)
        /\ EveryItemClosed(docCall.result)

(***************************************************************************)
(* Thumbnails, the results gallery and the joblib cache in output_dir/QA   *)
(***************************************************************************)
\* Thumbnail(tooltip=...) with its a(href=...), img(src=..., height, width)
\* and description set
Thumbnail(file, height, width, tooltip, description) ==
    [a |-> file, img |-> [src |-> file, height |-> height, width |-> width],
     tooltip |-> tooltip, description |-> description]

\* ResultsGallery.commit_thumbnails: the thumbnails are appended in order
commit_thumbnails(st, thumbnails) ==
    [st EXCEPT !.gallery = @ \o thumbnails]

\* the files the gallery entries refer to, in gallery order
GalleryFiles(gallery) == [i \in 1..Len(gallery) |-> gallery[i].a]

\* the key joblib.Memory stores a call under: function, arguments, keywords
CacheKey(fn, args, kwargs) == [fn |-> fn, args |-> args, kwargs |-> kwargs]

\* qa_mem.cache(fn)(...) that recomputes although the key is stored
cached_call_Mutant(st, key, written) ==
    [st EXCEPT !.requested = Append(@, key),
               !.cache = @ \cup {key},
               !.executed = Append(@, key),
               !.outputs = @ \cup written]

\* qa_mem.cache(fn)(...): the call is requested of the cache; fn runs, and
\* writes its files, only when the key is not stored yet
cached_call(st, key, written) ==
    IF key \in st.cache THEN [st EXCEPT !.requested = Append(@, key)]
    ELSE [st EXCEPT !.requested = Append(@, key),
                    !.cache = @ \cup {key},
                    !.executed = Append(@, key),
                    !.outputs = @ \cup written]

\* "%s_on_%s_outline.png" % (x[1], y[1]) and its axial variant
OutlineName(x, y) == <<x[2], "_on_", y[2], "_outline.png">>

OutlineAxialName(x, y) == <<x[2], "_on_", y[2], "_outline_axial.png">>

\* plot_registration(x[0], y[0], output_filename=..., close=True,
\* [display_mode=...], title="Outline of %s on %s" % (x[1], y[1]))
RegistrationKey(x, y, output_filename, display_mode) ==
    CacheKey("plot_registration", <<x[1], y[1]>>,
             <<<<"output_filename", output_filename>>, <<"close", <<"True">>>>>>
             \o When(display_mode # None, <<<<"display_mode", <<display_mode>>>>>>)
             \o <<<<"title", <<"Outline of ", x[2], " on ", y[2]>>>>>>)

\* generate_registration_thumbnails without its first commit
generate_registration_thumbnails_Mutant(st, a) ==
    LET thumb_desc == a.procedure_name
                      \o When(a.execution_log_html_filename # None,
                              <<" (<a href=", a.execution_log_html_filename,
                                ">see execution log</a>)">>)
        outline1 == OutlineName(a.target, a.source)
        st1 == cached_call(st, RegistrationKey(a.target, a.source, outline1, None),
                           {outline1})
        source == a.target
        target == a.source
        outline == OutlineName(target, source)
        outline_axial == OutlineAxialName(target, source)
        st3 == cached_call(st1, RegistrationKey(target, source, outline_axial, "z"),
                           {outline_axial})
        st4 == cached_call(st3, RegistrationKey(target, source, outline, None),
                           {outline})
        st5 == IF a.gallery
               THEN commit_thumbnails(st4,
                        <<Thumbnail(outline, "250px", "", a.tooltip, thumb_desc)>>)
               ELSE st4
    IN [st |-> st5, raised |-> None, output |-> {<<"axial", outline_axial>>},
        drawn |-> <<>>]

\* generate_registration_thumbnails on the state st = [cache, executed,
\* gallery, outputs, requested]; a.gallery tells whether results_gallery is
\* given
generate_registration_thumbnails(st, a) ==
    LET thumb_desc == a.procedure_name
                      \o When(a.execution_log_html_filename # None,
                              <<" (<a href=", a.execution_log_html_filename,
                                ">see execution log</a>)">>)
        outline1 == OutlineName(a.target, a.source)
        st1 == cached_call(st, RegistrationKey(a.target, a.source, outline1, None),
                           {outline1})
        st2 == IF a.gallery
               THEN commit_thumbnails(st1,
                        <<Thumbnail(outline1, "250px", "", a.tooltip, thumb_desc)>>)
               ELSE st1
        \* source, target = (target, source)
        source == a.target
        target == a.source
        outline == OutlineName(target, source)
        outline_axial == OutlineAxialName(target, source)
        st3 == cached_call(st2, RegistrationKey(target, source, outline_axial, "z"),
                           {outline_axial})
        st4 == cached_call(st3, RegistrationKey(target, source, outline, None),
                           {outline})
        st5 == IF a.gallery
               THEN commit_thumbnails(st4,
                        <<Thumbnail(outline, "250px", "", a.tooltip, thumb_desc)>>)
               ELSE st4
    IN [st |-> st5, raised |-> None, output |-> {<<"axial", outline_axial>>},
        drawn |-> <<>>]

\* generate_coregistration_thumbnails: the registration thumbnails under the
\* procedure name "Coregistration %s" % comments
generate_coregistration_thumbnails(st, a) ==
    LET comments == IF a.comment
                    THEN <<" ", a.source[2], " == > ", a.target[2]>>
                    ELSE <<>>
    IN generate_registration_thumbnails(st,
          [target |-> a.target, source |-> a.source,
           procedure_name |-> <<"Coregistration ">> \o comments,
           tooltip |-> a.tooltip,
           execution_log_html_filename |-> a.execution_log_html_filename,
           gallery |-> a.gallery])

\* the length of the default output_dir, '/tmp'
OutputDirLen == 4

Digits(i) == IF i < 10 THEN 1 ELSE 2

\* "tsdiffana_plot_{0}.png".format(i)
TsdiffanaName(i) == <<"tsdiffana_plot_", ToString(i), ".png">>

\* len(os.path.join(output_dir, "tsdiffana_plot_{0}.png".format(i)))
TsdiffanaPathLen(i) == OutputDirLen + 1 + 15 + Digits(i) + 4

Min(x, y) == IF x < y THEN x ELSE y

\* generate_tsdiffana_thumbnail; a.figures is the number of axes plot_tsdiffs
\* returns, a.tooltips is <<>> for None and <<list>> for a list
generate_tsdiffana_thumbnail(st, a) ==
    LET st1 == cached_call(st, CacheKey("multi_session_time_slice_diffs",
                                        <<a.image_files>>, <<>>), {})
        k == a.figures
        output_filenames == [i \in 1..k |-> TsdiffanaName(i - 1)]
        st2 == [st1 EXCEPT !.outputs = @ \cup { output_filenames[i] : i \in 1..k }]
        \* tooltips = [None] * len(output_filename): the loop variable of the
        \* savefig loop, unbound when there was no figure
        unbound == a.tooltips = <<>> /\ k = 0
        tooltips == IF a.tooltips = <<>>
                    THEN [i \in 1..TsdiffanaPathLen(k - 1) |-> None]
                    ELSE a.tooltips[1]
        thumbnails == [i \in 1..Min(k, Len(tooltips)) |->
                         Thumbnail(output_filenames[i], "250px", "600px", tooltips[i],
                                   <<"tsdiffana (", ToString(a.sessions), " sessions)">>)]
    IN IF unbound
       THEN [st |-> st2, raised |-> "UnboundLocalError", output |-> <<>>,
             drawn |-> <<>>]
       ELSE [st |-> IF a.gallery THEN commit_thumbnails(st2, thumbnails) ELSE st2,
             raised |-> None, output |-> thumbnails, drawn |-> <<>>]

\* lengths[:-1]
AllButLast(lengths) == SubSeq(lengths, 1, Len(lengths) - 1)

RECURSIVE AxvlineLoop(_, _, _, _)

\* for l in ls: pl.axvline(aux + l); aux += l -- from entry i on, with the
\* positions drawn so far
AxvlineLoop(ls, i, aux, drawn) ==
    IF i > Len(ls) THEN drawn
    ELSE AxvlineLoop(ls, i + 1, aux + ls[i], Append(drawn, aux + ls[i]))

\* the boundary loop run over every session, the last one included
SessionMarkers_Mutant(lengths) == AxvlineLoop(lengths, 1, 0, <<>>)

\* the vertical lines drawn on the motion plot
SessionMarkers(lengths) == AxvlineLoop(AllButLast(lengths), 1, 0, <<>>)

\* generate_realignment_thumbnails; a.lengths holds len() of each session's
\* motion array (np.vstack raises on an empty list)
generate_realignment_thumbnails(st, a) ==
    LET rp_plot == <<"rp_plot.png">>
        st1 == [st EXCEPT !.outputs = @ \cup {rp_plot}]
        description == <<"Motion Correction">>
                       \o When(a.execution_log_html_filename # None,
                               <<" (<a href=", a.execution_log_html_filename,
                                 ">see execution log</a>)">>)
    IN IF a.lengths = <<>>
       THEN [st |-> st, raised |-> "ValueError", output |-> {}, drawn |-> <<>>]
       ELSE IF a.gallery
       THEN [st |-> commit_thumbnails(st1,
                       <<Thumbnail(rp_plot, "250px", "600px", a.tooltip, description)>>),
             raised |-> None, output |-> {<<"rp_plot", rp_plot>>},
             drawn |-> SessionMarkers(a.lengths)]
       ELSE [st |-> st1, raised |-> None, output |-> {},
             drawn |-> SessionMarkers(a.lengths)]

\* the state the thumbnail generators act on
ThumbState ==
    [cache |-> cache, executed |-> executed, gallery |-> results_gallery,
     outputs |-> outputs, requested |-> <<>>]

\* a generator call fn(a) with outcome r takes effect and is recorded
ThumbCall(fn, a, r) ==
    /\ cache' = r.st.cache
    /\ executed' = r.st.executed
    /\ results_gallery' = r.st.gallery
    /\ outputs' = r.st.outputs
    /\ calls' = Append(calls, [fn |-> fn, args |-> a, raised |-> r.raised,
                               output |-> r.output, drawn |-> r.drawn,
                               executed |-> Len(r.st.executed),
                               committed |-> Len(r.st.gallery),
                               requested |-> r.st.requested])
    /\ UNCHANGED <<treeVars, docVars, reportVars>>

Images == { <<"func.nii", "func">>, <<"anat.nii", "anat">> }

MaxCalls == 3

MaxFigures == 2

InitCache ==
    /\ TreeIdle /\ DocIdle /\ ReportIdle
    /\ ThumbsIdle

registration_call(a) ==
    /\ Len(calls) < MaxCalls
    /\ ThumbCall("generate_registration_thumbnails", a,
                 generate_registration_thumbnails(ThumbState, a))

coregistration_call(a) ==
    /\ Len(calls) < MaxCalls
    /\ ThumbCall("generate_coregistration_thumbnails", a,
                 generate_coregistration_thumbnails(ThumbState, a))

tsdiffana_call(a) ==
    /\ Len(calls) < MaxCalls
    /\ ThumbCall("generate_tsdiffana_thumbnail", a,
                 generate_tsdiffana_thumbnail(ThumbState, a))

NextCache ==
    \/ \E a \in [target : Images, source : Images,
                  procedure_name : {<<"Registration">>}, tooltip : {None},
                  execution_log_html_filename : {None}, gallery : BOOLEAN] :
          registration_call(a)
    \/ \E a \in [target : Images, source : Images, tooltip : {None},
                  execution_log_html_filename : {None}, gallery : {TRUE},
                  comment : {TRUE}] :
          coregistration_call(a)
    \/ \E a \in [image_files : {"func.nii", "anat.nii"}, sessions : {1},
                  figures : 0..MaxFigures, tooltips : {<<>>},
                  gallery : {TRUE}] :
          tsdiffana_call(a)

SpecCache == InitCache /\ [][NextCache]_vars

NoDuplicates(q) == \A i, j \in 1..Len(q) : q[i] = q[j] => i = j

SameCall(c, d) == c.fn = d.fn /\ c.args = d.args

\* the first two calls are generate_registration_thumbnails with identical
\* arguments
TwoIdenticalRegistrations ==
    /\ Len(calls) = 2
    /\ calls[1].fn = "generate_registration_thumbnails"
    /\ SameCall(calls[1], calls[2])

\* C2 (as stated): over any sequence of generate_registration_thumbnails and
\* generate_tsdiffana_thumbnail calls every cache key is computed at most
\* once, and two successive identical generate_registration_thumbnails calls
\* run plot_registration 3 times in total.
C2_OncePerKeyThreeInTotal ==
    /\ NoDuplicates(executed)
    /\ TwoIdenticalRegistrations => Len(executed) = 3

\* C2 (amended): every cache key is computed at most once; a call repeating
\* the call before it computes nothing; two successive identical
\* generate_registration_thumbnails calls run plot_registration 3 times in
\* total when target and source differ and 2 times when they are the same.
C2_OncePerKey ==
    /\ NoDuplicates(executed)
    /\ \A i \in 1..(Len(calls) - 1) :
          SameCall(calls[i], calls[i + 1]) => calls[i + 1].executed = calls[i].executed
    /\ TwoIdenticalRegistrations =>
          Len(executed) = IF calls[1].args.target = calls[1].args.source THEN 2 ELSE 3

C2_Witness ==
    /\ TwoIdenticalRegistrations
    /\ calls[1].args.target # calls[1].args.source
    /\ Len(executed) = 3
    /\ calls[1].executed = 3

\* the calls made of generate_registration_thumbnails
RegistrationCalls ==
    { i \in 1..Len(calls) : calls[i].fn = "generate_registration_thumbnails" }

\* the numbers of computations run and of thumbnails committed before call i
ExecutedBefore(i) == IF i = 1 THEN 0 ELSE calls[i - 1].executed

CommittedBefore(i) == IF i = 1 THEN 0 ELSE calls[i - 1].committed

TargetOnSource(a) == <<a.target[2], "_on_", a.source[2], "_outline.png">>

SourceOnTarget(a) == <<a.source[2], "_on_", a.target[2], "_outline.png">>

SourceOnTargetAxial(a) == <<a.source[2], "_on_", a.target[2], "_outline_axial.png">>

\* the three plots of a call: target-on-source outline, source-on-target
\* axial outline, source-on-target outline
RegistrationRequests(a) ==
    << RegistrationKey(a.target, a.source, TargetOnSource(a), None),
       RegistrationKey(a.source, a.target, SourceOnTargetAxial(a), "z"),
       RegistrationKey(a.source, a.target, SourceOnTarget(a), None) >>

RECURSIVE FirstRuns(_, _)

\* the requests that find their key not stored, in order
FirstRuns(req, stored) ==
    IF req = <<>> THEN <<>>
    ELSE IF Head(req) \in stored THEN FirstRuns(Tail(req), stored)
    ELSE <<Head(req)>> \o FirstRuns(Tail(req), stored \cup {Head(req)})

\* call i returns only 'axial', leaves the three plots in output_dir and
\* commits, with a gallery, the target-on-source then the source-on-target
\* outline under one description, and nothing without a gallery
RegistrationCommits(i) ==
    LET c == calls[i]
        a == c.args
        b == CommittedBefore(i)
    IN /\ c.raised = None
       /\ c.output = {<<"axial", SourceOnTargetAxial(a)>>}
       /\ {TargetOnSource(a), SourceOnTarget(a), SourceOnTargetAxial(a)} \subseteq outputs
       /\ IF a.gallery
          THEN /\ c.committed = b + 2
               /\ results_gallery[b + 1].a = TargetOnSource(a)
               /\ results_gallery[b + 2].a = SourceOnTarget(a)
               /\ results_gallery[b + 1].description = results_gallery[b + 2].description
          ELSE c.committed = b

\* C14 (as stated): every generate_registration_thumbnails call runs the
\* registration plot three times, returns only 'axial', and commits with a
\* gallery exactly the target-on-source then the source-on-target outline
\* thumbnail with one description, and none without a gallery, the plots
\* being produced all the same.
C14_ThreePlotsEveryCall ==
    \A i \in RegistrationCalls :
        /\ calls[i].executed - ExecutedBefore(i) = 3
        /\ RegistrationCommits(i)

\* C14 (amended): every call requests the three plots of the cache in the
\* order target-on-source outline, source-on-target axial outline,
\* source-on-target outline, and exactly the requests whose key is not stored
\* yet are run: three on a first call with target and source differing; the
\* return value and the commits are as stated.
C14_ThreeRequestsTwoCommits ==
    \A i \in RegistrationCalls :
        LET c == calls[i]
            stored == { executed[j] : j \in 1..ExecutedBefore(i) }
        IN /\ c.requested = RegistrationRequests(c.args)
           /\ SubSeq(executed, ExecutedBefore(i) + 1, c.executed)
                 = FirstRuns(c.requested, stored)
           /\ (i = 1 /\ c.args.target # c.args.source)
                 => c.executed - ExecutedBefore(i) = 3
           /\ RegistrationCommits(i)

\* a first call with a gallery, target and source differing, and a second
\* call without a gallery
C14_Witness ==
    /\ Len(calls) = 2
    /\ RegistrationCalls = {1, 2}
    /\ calls[1].args.gallery /\ ~calls[2].args.gallery
    /\ calls[1].args.target # calls[1].args.source
    /\ calls[1].executed = 3
    /\ GalleryFiles(results_gallery)
          = <<TargetOnSource(calls[1].args), SourceOnTarget(calls[1].args)>>

(***************************************************************************)
(* generate_realignment_thumbnails                                         *)
(***************************************************************************)
MaxSessions == 3

MaxLength == 2

SessionLengths == UNION { [1..n -> 0..MaxLength] : n \in 0..MaxSessions }

InitRealign ==
    /\ TreeIdle /\ DocIdle /\ ReportIdle
    /\ ThumbsIdle

\* one call on a fresh output_dir
realignment_call(a) ==
    /\ calls = <<>>
    /\ ThumbCall("generate_realignment_thumbnails", a,
                 generate_realignment_thumbnails(ThumbState, a))

NextRealign ==
    \E a \in [lengths : SessionLengths, tooltip : {None, "tip"},
              execution_log_html_filename : {None, "log.html"},
              gallery : BOOLEAN] :
        realignment_call(a)

SpecRealign == InitRealign /\ [][NextRealign]_vars

RECURSIVE SumFirst(_, _)

\* l_1 + ... + l_k
SumFirst(lengths, k) == IF k = 0 THEN 0 ELSE SumFirst(lengths, k - 1) + lengths[k]

RealignDone ==
    /\ calls # <<>>
    /\ calls[1].raised = None

\* exactly n-1 markers, the k-th at l_1 + ... + l_k
MarkersAtBoundaries(c) ==
    /\ Len(c.drawn) = Len(c.args.lengths) - 1
    /\ \A k \in 1..Len(c.drawn) : c.drawn[k] = SumFirst(c.args.lengths, k)

NoMarkerAtEnds(c) ==
    \A k \in 1..Len(c.drawn) :
        c.drawn[k] # 0 /\ c.drawn[k] # SumFirst(c.args.lengths, Len(c.args.lengths))

\* C3 (as stated): for n >= 1 sessions of lengths l_1..l_n exactly n-1
\* markers are drawn, the k-th at l_1+...+l_k, and none at index 0 or at the
\* total length.
C3_MarkersNeverAtEnds ==
    RealignDone => MarkersAtBoundaries(calls[1]) /\ NoMarkerAtEnds(calls[1])

\* C3 (amended): exactly n-1 markers are drawn, the k-th at l_1+...+l_k; none
\* is at index 0 or at the total length when every session is non-empty.
C3_MarkersAtBoundaries ==
    RealignDone =>
        /\ MarkersAtBoundaries(calls[1])
        /\ (\A k \in 1..Len(calls[1].args.lengths) : calls[1].args.lengths[k] >= 1)
              => NoMarkerAtEnds(calls[1])

C3_Witness ==
    /\ RealignDone
    /\ Len(calls[1].args.lengths) = 2
    /\ calls[1].args.lengths[1] = 1 /\ calls[1].args.lengths[2] = 2
    /\ calls[1].drawn = <<1>>

(***************************************************************************)
(* generate_tsdiffana_thumbnail on its own                                 *)
(***************************************************************************)
\* tooltips as passed: <<>> for None, <<list>> for a list of tooltips
TooltipInputs ==
    { <<>> }
    \cup { <<l>> : l \in UNION { [1..n -> {None, "tip"}] : n \in 0..MaxFigures } }

TsdiffanaArgs ==
    [image_files : {"func.nii", "anat.nii"}, sessions : {1, 2},
     figures : 0..MaxFigures, tooltips : TooltipInputs, gallery : BOOLEAN]

InitTsdiffana ==
    /\ TreeIdle /\ DocIdle /\ ReportIdle
    /\ ThumbsIdle

\* one call on a fresh output_dir
tsdiffana_fresh_call(a) ==
    /\ calls = <<>>
    /\ ThumbCall("generate_tsdiffana_thumbnail", a,
                 generate_tsdiffana_thumbnail(ThumbState, a))

NextTsdiffana == \E a \in TsdiffanaArgs : tsdiffana_fresh_call(a)

SpecTsdiffana == InitTsdiffana /\ [][NextTsdiffana]_vars

\* C12: for every number k >= 0 of figures, with tooltips None or an explicit
\* list, generate_tsdiffana_thumbnail returns exactly k thumbnails, the i-th
\* referencing tsdiffana_plot_<i>.png (i = 0..k-1), and a gallery given
\* receives those k thumbnails in that order.
C12_KThumbnails ==
    calls # <<>> =>
        LET c == calls[1]
            k == c.args.figures
        IN /\ c.raised = None
           /\ Len(c.output) = k
           /\ \A i \in 1..Len(c.output) : c.output[i].a = TsdiffanaName(i - 1)
           /\ results_gallery = IF c.args.gallery THEN c.output ELSE <<>>

(***************************************************************************)
(* generate_stc_thumbnails                                                 *)
(***************************************************************************)
RECURSIVE StcLoop(_, _, _, _)

\* the loop over zip(sessions, original_bold, st_corrected_bold): a plot
\* per session and, with a gallery, a thumbnail per session
StcLoop(st, a, i, output) ==
    IF i > Min(Len(a.sessions), Min(a.original_bold, a.st_corrected_bold))
    THEN [st |-> st, raised |-> None, output |-> output, drawn |-> <<>>]
    ELSE LET output_filename == <<"stc_plot_", a.sessions[i], ".png">>
             st1 == [st EXCEPT !.outputs = @ \cup {output_filename}]
             description == <<"Slice-Timing Correction">>
                            \o When(a.execution_log_html_filename # None,
                                    <<" (<a href=", a.execution_log_html_filename,
                                      ">see execution log</a>)">>)
             st2 == IF a.gallery
                    THEN commit_thumbnails(st1,
                            <<Thumbnail(output_filename, "250px", "600px", None,
                                        description)>>)
                    ELSE st1
         IN StcLoop(st2, a, i + 1, {<<"stc_plot", output_filename>>})

\* sessions = [1] if sessions is None else sessions; a.sessions is <<>> for
\* None and <<list>> for a list
StcSessions(a) == IF a.sessions = <<>> THEN <<"1">> ELSE a.sessions[1]

\* the loop run once per session, whatever the numbers of images
generate_stc_thumbnails_Mutant(st, a) ==
    StcLoop(st, [a EXCEPT !.sessions = StcSessions(a),
                          !.original_bold = Len(StcSessions(a)),
                          !.st_corrected_bold = Len(StcSessions(a))], 1, {})

\* generate_stc_thumbnails; a.original_bold and a.st_corrected_bold are the
\* numbers of images given, a.voxel tells whether a voxel is given.  Without
\* one, _get_vol_shape(original_bold) takes original_bold[0].
generate_stc_thumbnails(st, a) ==
    IF ~a.voxel /\ a.original_bold = 0
    THEN [st |-> st, raised |-> "IndexError", output |-> {}, drawn |-> <<>>]
    ELSE StcLoop(st, [a EXCEPT !.sessions = StcSessions(a)], 1, {})

SessionIds == {"1", "2"}

\* sessions as passed: <<>> for None, <<list>> for a list of session ids
SessionInputs ==
    { <<>> }
    \cup { <<l>> : l \in UNION { [1..n -> SessionIds] : n \in 0..MaxSessions } }

StcArgs ==
    [sessions : SessionInputs, original_bold : 0..MaxSessions,
     st_corrected_bold : 0..MaxSessions, voxel : BOOLEAN,
     execution_log_html_filename : {None, "log.html"}, gallery : BOOLEAN]

InitStc ==
    /\ TreeIdle /\ DocIdle /\ ReportIdle
    /\ ThumbsIdle

\* one call on a fresh output_dir
stc_call(a) ==
    /\ calls = <<>>
    /\ ThumbCall("generate_stc_thumbnails", a, generate_stc_thumbnails(ThumbState, a))

NextStc == \E a \in StcArgs : stc_call(a)

SpecStc == InitStc /\ [][NextStc]_vars

StcPlot(session_id) == <<"stc_plot_", session_id, ".png">>

\* min(len(sessions), len(original_bold), len(st_corrected_bold))
StcProcessed(a) ==
    Min(Len(StcSessions(a)), Min(a.original_bold, a.st_corrected_bold))

\* the first m sessions, and no other, are plotted and (with a gallery)
\* committed in session order; 'stc_plot' is the file of the last of them
StcPlotsFirst(c, m) ==
    LET sessions == StcSessions(c.args) IN
    /\ c.raised = None
    /\ outputs = { StcPlot(sessions[i]) : i \in 1..m }
    /\ GalleryFiles(results_gallery)
          = IF c.args.gallery THEN [i \in 1..m |-> StcPlot(sessions[i])] ELSE <<>>
    /\ c.output = IF m = 0 THEN {} ELSE {<<"stc_plot", StcPlot(sessions[m])>>}

\* C13 (as stated): generate_stc_thumbnails never raises; it plots and, with a
\* gallery, commits in session order the first min(lengths) sessions -- all n
\* of them when there are n sessions, n original and n corrected images -- and
\* returns under 'stc_plot' the file of the last processed session only.
C13_FirstMinSessionsNoError ==
    calls # <<>> => StcPlotsFirst(calls[1], StcProcessed(calls[1].args))

\* C13 (amended): as stated whenever a voxel is given or original_bold is not
\* empty; with no voxel and an empty original_bold the call raises IndexError
\* with nothing plotted and nothing committed.
C13_FirstMinSessions ==
    calls # <<>> =>
        IF ~calls[1].args.voxel /\ calls[1].args.original_bold = 0
        THEN /\ calls[1].raised = "IndexError"
             /\ outputs = {}
             /\ results_gallery = <<>>
        ELSE StcPlotsFirst(calls[1], StcProcessed(calls[1].args))

\* the default sessions=[1] with two images each: one session processed
C13_Witness ==
    /\ calls # <<>>
    /\ calls[1].args.sessions = <<>>
    /\ calls[1].args.original_bold = 2 /\ calls[1].args.st_corrected_bold = 2
    /\ calls[1].args.gallery
    /\ calls[1].raised = None
    /\ Len(results_gallery) = 1
    /\ calls[1].output = {<<"stc_plot", StcPlot("1")>>}

(***************************************************************************)
(* generate_subject_preproc_report                                         *)
(***************************************************************************)
\* the parameters of generate_preproc_undergone_docstring
DocstringParams ==
    { "prepreproc_undergone", "tools_used", "dcm2nii", "deleteorient", "fwhm",
      "anat_fwhm", "bet", "slice_timing", "realign", "coregister",
      "coreg_func_to_anat", "func_write_voxel_sizes", "anat_write_voxel_sizes",
      "additional_preproc_undergone", "command_line", "details_filename",
      "has_func" }

\* the keywords generate_subject_preproc_report passes to it
ReportDocstringKeywords ==
    { "tools_used", "deleteorient", "fwhm", "bet", "slice_timing", "realign",
      "coreg", "coreg_func_to_anat", "additional_preproc_undergone" }

\* a call of a function without **kwargs takes only keywords it declares
AcceptsKeywords(params, keywords) == keywords \subseteq params

\* the js, css and image files copied from ROOT_DIR
StaticAssets == { <<"base.js">>, <<"styles.css">>, <<"loading.gif">>, <<"logo.png">> }

report_preproc_filename == <<"report_preproc.html">>

report_filename == <<"report.html">>

\* base_reporter.commit_subject_thumnbail_to_parent_gallery
commit_subject_thumnbail_to_parent_gallery(thumbnail, subject_id, gallery) ==
    Append(gallery, thumbnail)

\* the state a report call acts on
ReportState ==
    [cache |-> cache, executed |-> executed, gallery |-> results_gallery,
     outputs |-> outputs, requested |-> <<>>]

\* finalize_report: the parent commit whenever a parent gallery is given,
\* the logger's finish and finish_all when last_stage
finalize_report(r, a, final_thumbnail) ==
    [r EXCEPT
       !.parent = IF a.parent_results_gallery
                  THEN commit_subject_thumnbail_to_parent_gallery(
                           final_thumbnail, a.subject_id, @)
                  ELSE @,
       !.logger = IF a.last_stage
                  THEN @ \o <<<<"finish", "report_preproc.html">>, <<"finish_all">>>>
                  ELSE @]

\* a thumbnail step of the report: skipped once an earlier step has raised
ReportStep(r, enabled, step) ==
    IF r.raised # None \/ ~enabled THEN r
    ELSE [r EXCEPT !.st = step.st, !.raised = step.raised]

\* generate_subject_preproc_report from the state st, the parent gallery and
\* the logger as they stand
generate_subject_preproc_report(st, parent, logger, a) ==
    IF ~AcceptsKeywords(DocstringParams, ReportDocstringKeywords)
    THEN [st |-> st, parent |-> parent, logger |-> logger, raised |-> "TypeError"]
    ELSE
    LET preproc_undergone ==
            generate_preproc_undergone_docstring(
                [DefaultDocArgs EXCEPT !.deleteorient = a.did_deleteorient,
                                       !.bet = a.did_bet,
                                       !.slice_timing = a.did_slice_timing,
                                       !.realign = a.did_realign,
                                       !.coregister = a.did_coreg,
                                       !.coreg_func_to_anat = a.func_to_anat])
        final_thumbnail ==
            [a |-> report_preproc_filename,
             img |-> [src |-> <<>>, height |-> "", width |-> ""],
             tooltip |-> None, description |-> <<a.subject_id>>]
        r0 == [st |-> [st EXCEPT !.gallery = <<>>,
                                 !.outputs = @ \cup StaticAssets
                                             \cup {report_preproc_filename, report_filename}],
               parent |-> parent, logger |-> logger, raised |-> None]
        r1 == ReportStep(r0, a.did_slice_timing /\ a.original_bold > 0
                               /\ a.st_corrected_bold > 0,
                  generate_stc_thumbnails(r0.st,
                      [sessions |-> <<a.sessions>>, original_bold |-> a.original_bold,
                       st_corrected_bold |-> a.st_corrected_bold, voxel |-> FALSE,
                       execution_log_html_filename |-> None, gallery |-> TRUE]))
        r2 == ReportStep(r1, a.did_realign /\ a.estimated_motion # <<>>,
                  generate_realignment_thumbnails(r1.st,
                      [lengths |-> a.estimated_motion, tooltip |-> None,
                       execution_log_html_filename |-> None, gallery |-> TRUE]))
        r3 == ReportStep(r2, a.did_coreg,
                  generate_coregistration_thumbnails(r2.st,
                      [target |-> <<a.func, "func">>, source |-> <<a.anat, "anat">>,
                       tooltip |-> None, execution_log_html_filename |-> None,
                       gallery |-> TRUE, comment |-> TRUE]))
        r4 == ReportStep(r3, a.tsdiffana,
                  generate_tsdiffana_thumbnail(r3.st,
                      [image_files |-> a.func, sessions |-> Len(a.sessions),
                       figures |-> a.figures, tooltips |-> <<>>, gallery |-> TRUE]))
    IN IF r4.raised # None THEN r4 ELSE finalize_report(r4, a, final_thumbnail)

\* the arguments explored: original_bold and st_corrected_bold are the numbers
\* of images given, 0 for None; estimated_motion holds the sessions' lengths,
\* <<>> for None
ReportArgs ==
    [did_bet : BOOLEAN, did_slice_timing : BOOLEAN, did_deleteorient : {FALSE},
     did_realign : BOOLEAN, did_coreg : BOOLEAN, func_to_anat : {FALSE},
     tsdiffana : BOOLEAN, last_stage : BOOLEAN,
     parent_results_gallery : BOOLEAN, subject_progress_logger : BOOLEAN,
     subject_id : {"sub001"}, sessions : {<<"1">>, <<"1", "2">>},
     func : {"func.nii"}, anat : {"anat.nii"},
     original_bold : 0..2, st_corrected_bold : 1..2,
     estimated_motion : {<<>>, <<2, 2>>}, figures : {MaxFigures}]

DefaultReportArgs == CHOOSE a \in ReportArgs : TRUE

InitReport ==
    /\ TreeIdle /\ DocIdle
    /\ ThumbsIdle
    /\ parent_results_gallery = <<>>
    /\ progress_logger = <<>>
    /\ reportCall = [called |-> FALSE, args |-> DefaultReportArgs, raised |-> None]
    /\ nipCall = None

\* one call on a fresh output_dir
report_call(a) ==
    LET r == generate_subject_preproc_report(ReportState, parent_results_gallery,
                                             progress_logger, a)
    IN /\ ~reportCall.called
       /\ cache' = r.st.cache
       /\ executed' = r.st.executed
       /\ results_gallery' = r.st.gallery
       /\ outputs' = r.st.outputs
       /\ parent_results_gallery' = r.parent
       /\ progress_logger' = r.logger
       /\ reportCall' = [called |-> TRUE, args |-> a, raised |-> r.raised]
       /\ UNCHANGED <<treeVars, docVars, calls, nipCall>>

NextReport == \E a \in ReportArgs : report_call(a)

SpecReport == InitReport /\ [][NextReport]_vars

\* C5: generate_subject_preproc_report completes without raising, whatever
\* its did_* flags, and leaves report.html and report_preproc.html written
\* in output_dir.
C5_ReportsWritten ==
    reportCall.called =>
        /\ reportCall.raised = None
        /\ report_filename \in outputs
        /\ report_preproc_filename \in outputs

\* C6: the final thumbnail is committed to the parent gallery if and only if
\* last_stage is true and a parent gallery was supplied.
C6_ParentCommitIffLastStage ==
    reportCall.called =>
        ((Len(parent_results_gallery) = 1)
            <=> (reportCall.args.last_stage /\ reportCall.args.parent_results_gallery))

\* C7: within one call the progress logger receives finish(report_preproc.html)
\* then finish_all(), each once, if and only if last_stage is true; with
\* last_stage false it receives neither.
C7_FinishIffLastStage ==
    reportCall.called =>
        progress_logger = IF reportCall.args.last_stage
                          THEN <<<<"finish", "report_preproc.html">>, <<"finish_all">>>>
                          ELSE <<>>

\* the session and image counts of a call agree wherever images are given
MatchingCounts(a) ==
    a.original_bold # 0 =>
        /\ a.original_bold = Len(a.sessions)
        /\ a.st_corrected_bold = Len(a.sessions)

\* the thumbnails a call is to commit: slice timing per session, realignment,
\* the two coregistration outlines, tsdiffana
ExpectedGalleryFiles(a) ==
    When(a.did_slice_timing /\ a.original_bold # 0,
         [i \in 1..Len(a.sessions) |-> <<"stc_plot_", a.sessions[i], ".png">>])
    \o When(a.did_realign /\ a.estimated_motion # <<>>, <<<<"rp_plot.png">>>>)
    \o When(a.did_coreg,
            <<<<"func", "_on_", "anat", "_outline.png">>,
              <<"anat", "_on_", "func", "_outline.png">>>>)
    \o When(a.tsdiffana, [i \in 1..a.figures |-> TsdiffanaName(i - 1)])

\* C11: the per-subject results gallery of generate_subject_preproc_report
\* holds, in this order, the slice-timing thumbnails (one per session, in
\* session order), the realignment thumbnail, the two coregistration outlines
\* and the tsdiffana thumbnails, each group present exactly when its step is
\* enabled and its inputs are given.
C11_GalleryCommitOrder ==
    (reportCall.called /\ MatchingCounts(reportCall.args)) =>
        GalleryFiles(results_gallery) = ExpectedGalleryFiles(reportCall.args)

(***************************************************************************)
(* nipype execution logs.  Paths are absolute: the root of tree is "/".    *)
(* An argument that is a path or a list of paths is [is_list, items], a    *)
(* single path being the only item.                                        *)
(***************************************************************************)
ReportRst(dir) == dir \o <<"_report", "report.rst">>

NeitherMessage(path) == <<path, " is neither a file nor directory!">>

\* get_nipype_report_filename without the check of the last branch
get_nipype_report_filename_Mutant(t, x) ==
    IF x.items = <<>>
    THEN [raised |-> "IndexError", message |-> <<>>, value |-> <<>>]
    ELSE IF isfile(t, x.items[1])
    THEN [raised |-> None, message |-> <<>>, value |-> ReportRst(Parent(x.items[1]))]
    ELSE [raised |-> None, message |-> <<>>, value |-> ReportRst(x.items[1])]

RECURSIVE get_nipype_report_filename(_, _)

\* get_nipype_report_filename: the report of a directory, of the directory
\* of a file, or of the first element of a list
get_nipype_report_filename(t, x) ==
    IF ~x.is_list
    THEN LET output_files_or_dir == x.items[1] IN
         IF isdir(t, output_files_or_dir)
         THEN [raised |-> None, message |-> <<>>,
               value |-> ReportRst(output_files_or_dir)]
         ELSE IF isfile(t, output_files_or_dir)
         THEN get_nipype_report_filename(t,
                  [is_list |-> FALSE, items |-> <<Parent(output_files_or_dir)>>])
         ELSE [raised |-> "OSError", message |-> NeitherMessage(output_files_or_dir),
               value |-> <<>>]
    ELSE IF x.items = <<>>
    THEN [raised |-> "IndexError", message |-> <<>>, value |-> <<>>]
    ELSE get_nipype_report_filename(t, [is_list |-> FALSE, items |-> <<x.items[1]>>])

\* nipype2htmlreport: the lines of the report file, as html
nipype2htmlreport(nipype_report_filename) == <<"lines2breaks of ", nipype_report_filename>>

RECURSIVE JoinHr(_)

\* "<hr/>".join(output)
JoinHr(output) ==
    IF output = <<>> THEN <<>>
    ELSE IF Len(output) = 1 THEN output[1]
    ELSE output[1] \o <<"<hr/>">> \o JoinHr(Tail(output))

RECURSIVE ReportsOf(_, _)

\* the loop of get_nipype_report: the reports of the names that exist
ReportsOf(t, names) ==
    IF names = <<>> THEN <<>>
    ELSE IF exists(t, names[1])
    THEN <<nipype2htmlreport(names[1])>> \o ReportsOf(t, Tail(names))
    ELSE ReportsOf(t, Tail(names))

\* get_nipype_report that opens every name, the missing ones too
get_nipype_report_Mutant(t, x) ==
    LET nipype_report_filenames == IF ~x.is_list THEN <<x.items[1]>> ELSE x.items
    IN IF \E i \in 1..Len(nipype_report_filenames) :
              ~isfile(t, nipype_report_filenames[i])
       THEN [raised |-> "FileNotFoundError", value |-> <<>>]
       ELSE [raised |-> None, value |-> JoinHr(ReportsOf(t, nipype_report_filenames))]

\* get_nipype_report: opening a directory as a report file raises
get_nipype_report(t, x) ==
    LET nipype_report_filenames ==
            IF ~x.is_list
            THEN IF isfile(t, x.items[1]) THEN <<x.items[1]>> ELSE <<>>
            ELSE x.items
    IN IF \E i \in 1..Len(nipype_report_filenames) : isdir(t, nipype_report_filenames[i])
       THEN [raised |-> "IsADirectoryError", value |-> <<>>]
       ELSE [raised |-> None, value |-> JoinHr(ReportsOf(t, nipype_report_filenames))]

RECURSIVE ReplaceSpaces(_)

\* brain_name.replace(" ", "_")
ReplaceSpaces(name) ==
    IF name = <<>> THEN <<>>
    ELSE <<IF name[1] = " " THEN "_" ELSE name[1]>> \o ReplaceSpaces(Tail(name))

\* make_nipype_execution_log_html from the written files outs and the
\* logger's entries; a.progress_logger tells whether a logger is given
make_nipype_execution_log_html(t, outs, logger, a) ==
    LET brain_name == ReplaceSpaces(a.brain_name)
        name == get_nipype_report_filename(t, a.nipype_output_files)
        report == get_nipype_report(t, [is_list |-> FALSE, items |-> <<name.value>>])
        execution_log == report.value
        execution_log_html_filename ==
            <<a.node_name>>
            \o (IF brain_name # <<>> THEN <<"_">> \o brain_name \o <<"_">> ELSE <<>>)
            \o <<"execution_log.html">>
    IN IF name.raised # None
       THEN [raised |-> name.raised, message |-> name.message, outputs |-> outs,
             logger |-> logger, written |-> <<>>, value |-> <<>>]
       ELSE IF report.raised # None
       THEN [raised |-> report.raised, message |-> <<>>, outputs |-> outs,
             logger |-> logger, written |-> <<>>, value |-> <<>>]
       ELSE [raised |-> None, message |-> <<>>,
             outputs |-> outs \cup {execution_log_html_filename},
             logger |-> IF a.progress_logger
                        THEN logger \o <<<<"log", <<"<b>", a.node_name, "</b><br/><br/>">>>>,
                                         <<"log", execution_log>>,
                                         <<"log", <<"<hr/>">>>>>>
                        ELSE logger,
             written |-> <<execution_log_html_filename, execution_log>>,
             value |-> execution_log_html_filename]

NipypeFiles ==
    { <<"out", "result.nii">>, <<"out", "_report", "report.rst">>, <<"other.nii">>,
      <<"node", "_report", "report.rst">> }

NipypeDirs == { <<"out">>, <<"empty">> }

NipypePaths ==
    { <<"out">>, <<"out", "result.nii">>, <<"other.nii">>, <<"empty">>, <<"missing">> }

NipypeInputs ==
    { [is_list |-> FALSE, items |-> <<q>>] : q \in NipypePaths }
    \cup { [is_list |-> TRUE, items |-> <<q>>] : q \in NipypePaths }
    \cup { [is_list |-> TRUE, items |-> <<q, <<"out">>>>] : q \in NipypePaths }
    \cup { [is_list |-> TRUE, items |-> <<>>] }

NipypeArgs ==
    [nipype_output_files : NipypeInputs, node_name : {"Realign"},
     brain_name : {<<>>, <<"my", " ", "brain">>}, progress_logger : BOOLEAN]

InitNipype ==
    /\ tree \in { MkTree(fs, ds) : fs \in SUBSET NipypeFiles, ds \in SUBSET NipypeDirs }
    /\ exportCall = None
    /\ delCall = None
    /\ DocIdle /\ ThumbsIdle
    /\ parent_results_gallery = <<>>
    /\ progress_logger = <<>>
    /\ reportCall = None
    /\ nipCall = [called |-> FALSE, args |-> CHOOSE a \in NipypeArgs : TRUE,
                  raised |-> None, message |-> <<>>, written |-> <<>>, value |-> <<>>]

\* one call on a fresh output_dir
nipype_log_call(a) ==
    LET r == make_nipype_execution_log_html(tree, outputs, progress_logger, a)
    IN /\ ~nipCall.called
       /\ outputs' = r.outputs
       /\ progress_logger' = r.logger
       /\ nipCall' = [called |-> TRUE, args |-> a, raised |-> r.raised,
                      message |-> r.message, written |-> r.written, value |-> r.value]
       /\ UNCHANGED <<treeVars, docVars, cache, executed, results_gallery, calls,
                      parent_results_gallery, reportCall>>

MaxReports == 3

\* report file names handed to get_nipype_report as a list
ReportNames ==
    { ReportRst(<<"out">>), ReportRst(<<"node">>), ReportRst(<<"missing">>) }

ReportLists == UNION { [1..n -> ReportNames] : n \in 0..MaxReports }

\* get_nipype_report called on a list of report file names
nipype_report_call(names) ==
    LET r == get_nipype_report(tree, [is_list |-> TRUE, items |-> names])
    IN /\ calls = <<>>
       /\ calls' = <<[fn |-> "get_nipype_report", args |-> names,
                      raised |-> r.raised, output |-> r.value]>>
       /\ UNCHANGED <<treeVars, docVars, cache, executed, results_gallery, outputs,
                      reportVars>>

NextNipype ==
    \/ \E a \in NipypeArgs : nipype_log_call(a)
    \/ \E names \in ReportLists : nipype_report_call(names)

SpecNipype == InitNipype /\ [][NextNipype]_vars

\* the path given, or the first element of the list given, exists as
\* neither a file nor a directory
BadNipypePath(a) ==
    /\ a.nipype_output_files.items # <<>>
    /\ ~exists(tree, a.nipype_output_files.items[1])

\* C8: when the output path given (or the first element of the list given) is
\* neither an existing file nor an existing directory, OSError is raised with
\* a message naming that path, no execution-log file is written and nothing
\* is appended to the progress logger.
C8_BadPathRaisesOSError ==
    (nipCall.called /\ BadNipypePath(nipCall.args)) =>
        /\ nipCall.raised = "OSError"
        /\ nipCall.message[1] = nipCall.args.nipype_output_files.items[1]
        /\ outputs = {}
        /\ nipCall.written = <<>>
        /\ progress_logger = <<>>

\* brain_name with its spaces replaced by underscores
Underscored(name) == [i \in 1..Len(name) |-> IF name[i] = " " THEN "_" ELSE name[i]]

\* <node_name>[_<brain_name>_]execution_log.html
ExecutionLogName(a) ==
    <<a.node_name>>
    \o (IF a.brain_name = <<>> THEN <<>>
        ELSE <<"_">> \o Underscored(a.brain_name) \o <<"_">>)
    \o <<"execution_log.html">>

\* the path given resolves to a directory that holds no _report/report.rst
MissingReport(a) ==
    LET items == a.nipype_output_files.items IN
    /\ items # <<>>
    /\ exists(tree, items[1])
    /\ ~isfile(tree, ReportRst(IF isdir(tree, items[1]) THEN items[1]
                               ELSE Parent(items[1])))

\* the report file names of a list that exist, in input order
ExistingReports(names) == SelectSeq(names, LAMBDA n : isfile(tree, n))

\* value is the reports of names joined by <hr/>
JoinedReports(value, names) ==
    /\ Len(value) = IF names = <<>> THEN 0 ELSE 3 * Len(names) - 1
    /\ \A i \in 1..Len(names) :
          /\ value[3 * i - 1] = names[i]
          /\ i < Len(names) => value[3 * i] = "<hr/>"

\* C17: when the output path resolves to a directory without
\* _report/report.rst, make_nipype_execution_log_html raises nothing, the
\* execution log is empty, the file
\* <node_name>[_<brain_name, spaces as underscores>_]execution_log.html is
\* written, and a progress logger given receives exactly the node-name header,
\* the execution log and '<hr/>', in this order; get_nipype_report on a list
\* joins the existing reports in input order with '<hr/>' between them and
\* skips the missing ones.
C17_MissingReportEmptyLog ==
    /\ (nipCall.called /\ MissingReport(nipCall.args)) =>
          /\ nipCall.raised = None
          /\ nipCall.written = <<ExecutionLogName(nipCall.args), <<>>>>
          /\ nipCall.value = ExecutionLogName(nipCall.args)
          /\ outputs = {ExecutionLogName(nipCall.args)}
          /\ progress_logger
                = IF nipCall.args.progress_logger
                  THEN << <<"log", <<"<b>", nipCall.args.node_name, "</b><br/><br/>">>>>,
                          <<"log", <<>>>>,
                          <<"log", <<"<hr/>">>>> >>
                  ELSE <<>>
    /\ calls # <<>> =>
          /\ calls[1].raised = None
          /\ JoinedReports(calls[1].output, ExistingReports(calls[1].args))

\* a directory without report logged under a brain name with a space, and a
\* list of two existing reports around a missing one
C17_Witness ==
    /\ nipCall.called
    /\ nipCall.args.nipype_output_files = [is_list |-> FALSE, items |-> <<<<"empty">>>>]
    /\ nipCall.args.brain_name # <<>>
    /\ nipCall.args.progress_logger
    /\ MissingReport(nipCall.args)
    /\ Len(progress_logger) = 3
    /\ <<"Realign", "_", "my", "_", "brain", "_", "execution_log.html">> \in outputs
    /\ calls # <<>>
    /\ calls[1].args = <<ReportRst(<<"out">>), ReportRst(<<"missing">>), ReportRst(<<"node">>)>>
    /\ Len(ExistingReports(calls[1].args)) = 2
    /\ Len(calls[1].output) = 5

C8_Witness ==
    /\ nipCall.called
    /\ nipCall.args.nipype_output_files.is_list
    /\ nipCall.args.progress_logger
    /\ BadNipypePath(nipCall.args)
    /\ nipCall.raised = "OSError"
    /\ nipCall.message = NeitherMessage(<<"missing">>)

====
